---- MODULE Spec2Model ----
(***************************************************************************)
(* Model of the sitefresh-restaurant content pipeline:                     *)
(*   scrapeRestaurant -> normalizeRestaurantData -> rewriteContent ->      *)
(*   downloadAllImages -> writeFileSync                                    *)
(* driven by the CLI entry point (scripts/scrape.ts main) and by the HTTP  *)
(* endpoint (app/api/generate/route.ts POST).                              *)
(*                                                                         *)
(* Text values are sequences of one-character strings, so that slugify,    *)
(* URL parsing and path building are computed as the code computes them.   *)
(***************************************************************************)
EXTENDS Integers, Sequences, FiniteSets, TLC

\* ------------------------------------------------------------------------
\* Bounds of the model
\* ------------------------------------------------------------------------
\* largest number of menu items on a scraped page
MaxItems == 2
\* largest number of content sections on a scraped page
MaxSections == 1

\* ------------------------------------------------------------------------
\* Text
\* ------------------------------------------------------------------------
\* a JavaScript `undefined` (an absent optional field)
Undefined == << "undefined" >>

\* JavaScript truthiness of an optional string
Truthy(s) == s # Undefined /\ s # << >>

UpperChars == << "A","B","C","D","E","F","G","H","I","J","K","L","M",
                 "N","O","P","Q","R","S","T","U","V","W","X","Y","Z" >>
LowerChars == << "a","b","c","d","e","f","g","h","i","j","k","l","m",
                 "n","o","p","q","r","s","t","u","v","w","x","y","z" >>
DigitChars == { "0","1","2","3","4","5","6","7","8","9" }
SpaceChars == { " ", "\t", "\n" }

IsUpper(c) == \E i \in DOMAIN UpperChars : UpperChars[i] = c
IsLower(c) == \E i \in DOMAIN LowerChars : LowerChars[i] = c
IsLetter(c) == IsUpper(c) \/ IsLower(c)
\* the regular expression class \w
IsWordChar(c) == IsLetter(c) \/ c \in DigitChars \/ c = "_"

LowerChar(c) ==
  IF IsUpper(c) THEN LowerChars[CHOOSE i \in DOMAIN UpperChars : UpperChars[i] = c]
  ELSE c

toLowerCase(s) == [i \in DOMAIN s |-> LowerChar(s[i])]

StartsWith(s, p) == Len(s) >= Len(p) /\ SubSeq(s, 1, Len(p)) = p

Drop(s, n) == SubSeq(s, n + 1, Len(s))

\* ------------------------------------------------------------------------
\* slugify (lib/slug.ts and the private copy in lib/images.ts)
\* ------------------------------------------------------------------------
\* .replace(/[^\w\s-]/g, '')
RECURSIVE RemoveSpecial(_)
RemoveSpecial(s) ==
  IF s = << >> THEN << >>
  ELSE IF IsWordChar(Head(s)) \/ Head(s) \in SpaceChars \/ Head(s) = "-"
       THEN << Head(s) >> \o RemoveSpecial(Tail(s))
       ELSE RemoveSpecial(Tail(s))

IsSeparator(c) == c \in SpaceChars \/ c = "_" \/ c = "-"

\* .replace(/[\s_-]+/g, '-')
RECURSIVE CollapseSeparators(_)
CollapseSeparators(s) ==
  IF s = << >> THEN << >>
  ELSE IF IsSeparator(Head(s))
       THEN IF Len(s) > 1 /\ IsSeparator(s[2])
            THEN CollapseSeparators(Tail(s))
            ELSE << "-" >> \o CollapseSeparators(Tail(s))
       ELSE << Head(s) >> \o CollapseSeparators(Tail(s))

\* .replace(/^-+|-+$/g, '')
RECURSIVE TrimLeadingHyphens(_)
TrimLeadingHyphens(s) ==
  IF s # << >> /\ Head(s) = "-" THEN TrimLeadingHyphens(Tail(s)) ELSE s

RECURSIVE TrimTrailingHyphens(_)
TrimTrailingHyphens(s) ==
  IF s # << >> /\ s[Len(s)] = "-"
  THEN TrimTrailingHyphens(SubSeq(s, 1, Len(s) - 1))
  ELSE s

slugify(text) ==
  TrimTrailingHyphens(TrimLeadingHyphens(
    CollapseSeparators(RemoveSpecial(toLowerCase(text)))))

\* ------------------------------------------------------------------------
\* new URL(text), for texts of the shape scheme://host[/path]
\* ------------------------------------------------------------------------
\* position of the first "://" in s, 0 when there is none
SchemeEnd(s) ==
  LET hits == { i \in 1..(Len(s) - 2) : SubSeq(s, i, i + 2) = << ":", "/", "/" >> }
  IN IF hits = {} THEN 0 ELSE CHOOSE i \in hits : \A j \in hits : i <= j

\* position of the first "/" in s, Len(s)+1 when there is none
FirstSlash(s) ==
  LET hits == { i \in 1..Len(s) : s[i] = "/" }
  IN IF hits = {} THEN Len(s) + 1 ELSE CHOOSE i \in hits : \A j \in hits : i <= j

\* [ok, hostname, pathname]: ok is FALSE where the constructor throws
ParseUrl(s) ==
  LET e == SchemeEnd(s)
      scheme == SubSeq(s, 1, e - 1)
      rest == Drop(s, e + 2)
      h == FirstSlash(rest)
      host == SubSeq(rest, 1, h - 1)
      path == Drop(rest, h - 1)
  IN IF /\ s # Undefined
        /\ e > 1
        /\ \A i \in DOMAIN scheme : IsLetter(scheme[i])
        /\ host # << >>
        /\ \A i \in DOMAIN host : IsWordChar(host[i]) \/ host[i] \in { ".", "-" }
     THEN [ok |-> TRUE, hostname |-> toLowerCase(host),
           pathname |-> IF path = << >> THEN << "/" >> ELSE path]
     ELSE [ok |-> FALSE, hostname |-> << >>, pathname |-> << >>]

\* the hostname as it would be with the www. prefix kept
StripWwwKept(host) == host

\* .replace(/^www\./, '')
StripWww(host) ==
  IF StartsWith(host, << "w", "w", "w", "." >>) THEN Drop(host, 4) ELSE host

\* createSlugFromUrl as it would be without the fallback of its catch
createSlugFromUrlHostOnly(url) == slugify(StripWww(ParseUrl(url).hostname))

createSlugFromUrl(url) ==
  LET urlObj == ParseUrl(url)
  IN IF urlObj.ok THEN slugify(StripWww(urlObj.hostname)) ELSE slugify(url)

\* ------------------------------------------------------------------------
\* Texts used as inputs
\* ------------------------------------------------------------------------
Soup == << "S", "o", "u", "p" >>
SoupBang == << "s", "o", "u", "p", "!" >>
HeroTitle == << "H", "e", "r", "o" >>
AboutTitle == << "A", "b", "o", "u", "t" >>
Mains == << "M", "a", "i", "n", "s" >>
WoHop == << "W", "o", " ", "H", "o", "p" >>
WoHopClean == << "W", "o", " ", "H", "o", "p", "." >>

\* remote image URLs and a root-relative (already local) image path
ImgA == << "h", ":", "/", "/", "i", "/", "a" >>
ImgB == << "h", ":", "/", "/", "i", "/", "b" >>
LocalImg == << "/", "h", ".", "p", "n", "g" >>

\* request URLs: a site, a text that is no URL, and none
UrlWww == << "h", "t", "t", "p", ":", "/", "/", "w", "w", "w", ".", "A", ".", "c", "o", "/", "m" >>
UrlBad == << "a", ".", "c", "o" >>
UrlNone == << >>
Urls == { UrlWww, UrlBad, UrlNone }

OtherSlug == << "x" >>
OtherUrl == << "h", ":", "/", "/", "x" >>
NotAUrl == << "n", "/", "a" >>

\* opening-hours texts of a page's JSON-LD: hours without minutes, and
\* hours with minutes, each followed by a line that names no day
HoursNoMinutes ==
  << "M", "o", "n", "d", "a", "y", ":", " ", "1", "1", "a", "m", "-", "1", "0", "p", "m",
     "\n", "C", "l", "o", "s", "e", "d" >>
HoursWithMinutes ==
  << "M", "o", "n", "-", "F", "r", "i", ":", " ", "9", ":", "0", "0", "a", "m", " ", "-",
     " ", "5", ":", "3", "0", " ", "P", "M", "\n", "C", "l", "o", "s", "e", "d" >>
\* an openingHours value of the page's JSON-LD that is an array, not a string
HoursArray == << "[array]" >>

\* the first run of digits in the text of a review's .rating element
\* (none, "4", "10")
RatingTexts == { Undefined, << "4" >>, << "1", "0" >> }

\* values of the clock read by new Date().toISOString()
Times == { << "t", "1" >> }
OtherTime == << "t", "9" >>

\* ------------------------------------------------------------------------
\* Pages: what the extractor finds in a fetched HTML document
\* ------------------------------------------------------------------------
BoundedSeq(S, n) == UNION { [1..k -> S] : k \in 0..n }

ItemChoices == { [name |-> Soup, image |-> ImgB], [name |-> SoupBang, image |-> ImgA] }
SectionChoices == { [title |-> HeroTitle, image |-> ImgB],
                    [title |-> AboutTitle, image |-> Undefined] }

\* extractMenu keeps a category only when it has a name and at least one item
MenuOf(items) == IF items = << >> THEN << >> ELSE << [name |-> Mains, items |-> items] >>

\* parseInt of a run of digits
DigitValue(c) ==
  CASE c = "0" -> 0 [] c = "1" -> 1 [] c = "2" -> 2 [] c = "3" -> 3 [] c = "4" -> 4
    [] c = "5" -> 5 [] c = "6" -> 6 [] c = "7" -> 7 [] c = "8" -> 8 [] c = "9" -> 9

RECURSIVE parseInt(_)
parseInt(digits) ==
  IF digits = << >> THEN 0
  ELSE 10 * parseInt(SubSeq(digits, 1, Len(digits) - 1)) + DigitValue(digits[Len(digits)])

\* an absent rating (rating: undefined)
NoRating == 0 - 1

\* extractReviews: `rating: rating ? parseInt(rating) : undefined`
ReviewsOf(ratingText) ==
  << [rating |-> IF Truthy(ratingText) THEN parseInt(ratingText) ELSE NoRating] >>

\* pages without menu or sections, over every kind of hero and logo; pages
\* with a remote hero and logo, over every menu and section list; and pages
\* without images, over the name, the opening hours and the reviews found
ScrapedPages ==
  { [name |-> WoHop, heroImage |-> h, logo |-> l, menu |-> << >>,
     sections |-> << >>, reviews |-> << >>, hours |-> Undefined] :
      h \in { Undefined, ImgA, LocalImg }, l \in { Undefined, ImgB } }
  \cup
  { [name |-> WoHop, heroImage |-> ImgA, logo |-> ImgB, menu |-> MenuOf(items),
     sections |-> secs, reviews |-> << >>, hours |-> Undefined] :
      items \in BoundedSeq(ItemChoices, MaxItems),
      secs \in BoundedSeq(SectionChoices, MaxSections) }
  \cup
  { [name |-> n, heroImage |-> Undefined, logo |-> Undefined, menu |-> << >>,
     sections |-> << >>, reviews |-> revs, hours |-> h] :
      n \in { WoHop, Undefined },
      revs \in { << >> } \cup { ReviewsOf(t) : t \in RatingTexts },
      h \in { Undefined, HoursNoMinutes, HoursWithMinutes, HoursArray } }

\* what the extractor finds in a body that is not HTML (cheerio.load accepts
\* any text; no selector matches)
EmptyScrape ==
  [name |-> Undefined, heroImage |-> Undefined, logo |-> Undefined, menu |-> << >>,
   sections |-> << >>, reviews |-> << >>, hours |-> Undefined]

\* ------------------------------------------------------------------------
\* lib/schema.ts
\* ------------------------------------------------------------------------
DefaultPrimary == << "#", "b", "9", "1", "c", "1", "c" >>
DefaultAccent == << "#", "1", "1", "1", "8", "2", "7" >>
DefaultHeroOverlay == << "r", "g", "b", "a", "(", "0", ",", "0", ",", "0", ",", "0", ".", "3", "5", ")" >>
DefaultTheme ==
  [primary |-> DefaultPrimary, accent |-> DefaultAccent, heroOverlay |-> DefaultHeroOverlay]
\* a theme with every field absent: the {} that theme defaults to
NoThemeFields == [primary |-> Undefined, accent |-> Undefined, heroOverlay |-> Undefined]

\* z.string(): present
IsString(v) == v # Undefined
\* z.string().url()
IsUrl(v) == v # Undefined /\ ParseUrl(v).ok
\* Review.rating: z.number().min(1).max(5).optional()
RatingOk(r) == r = NoRating \/ (r >= 1 /\ r <= 5)

WithDefault(v, d) == IF v = Undefined THEN d ELSE v

\* the theme of a parsed response as it would be without the .default(...)
\* of the schema's theme fields
ParseThemeNoDefaults(t) == t

\* theme: z.object({... .default(..)}).default({}); an absent theme is
\* NoThemeFields, the {} it defaults to
ParseTheme(t) ==
  [primary |-> WithDefault(t.primary, DefaultPrimary),
   accent |-> WithDefault(t.accent, DefaultAccent),
   heroOverlay |-> WithDefault(t.heroOverlay, DefaultHeroOverlay)]

\* RestaurantSite.safeParse: does the value satisfy the schema
SchemaAccepts(c) ==
  /\ IsString(c.slug)
  /\ IsString(c.name)
  /\ \A k \in DOMAIN c.menu :
       /\ IsString(c.menu[k].name)
       /\ \A i \in DOMAIN c.menu[k].items : IsString(c.menu[k].items[i].name)
  /\ \A k \in DOMAIN c.sections : IsString(c.sections[k].title)
  /\ \A k \in DOMAIN c.reviews : RatingOk(c.reviews[k].rating)
  /\ \A k \in DOMAIN c.hours :
       IsString(c.hours[k].day) /\ IsString(c.hours[k].open) /\ IsString(c.hours[k].close)
  /\ IsUrl(c.sourceUrl)
  /\ IsString(c.lastScrapedAt)

\* SchemaParse as it would be if the parsed response were returned without
\* validation
SchemaParseAcceptsAll(c) ==
  [ok |-> TRUE, value |-> [c EXCEPT !.theme = ParseTheme(c.theme)]]

\* RestaurantSite.parse: [ok, value]; ok is FALSE where parse throws a ZodError
SchemaParse(c) ==
  IF SchemaAccepts(c)
  THEN [ok |-> TRUE, value |-> [c EXCEPT !.theme = ParseTheme(c.theme)]]
  ELSE [ok |-> FALSE, value |-> c]

\* ------------------------------------------------------------------------
\* parseHours (lib/normalize.ts): the two regular expressions, matched as
\* the regular-expression engine matches them (leftmost start, alternatives
\* in the order written, greedy repetition)
\* ------------------------------------------------------------------------
\* the alternation (monday|...|sunday|mon|...|sun), in the order written
DayNames ==
  << << "m", "o", "n", "d", "a", "y" >>, << "t", "u", "e", "s", "d", "a", "y" >>,
     << "w", "e", "d", "n", "e", "s", "d", "a", "y" >>,
     << "t", "h", "u", "r", "s", "d", "a", "y" >>, << "f", "r", "i", "d", "a", "y" >>,
     << "s", "a", "t", "u", "r", "d", "a", "y" >>, << "s", "u", "n", "d", "a", "y" >>,
     << "m", "o", "n" >>, << "t", "u", "e" >>, << "w", "e", "d" >>, << "t", "h", "u" >>,
     << "f", "r", "i" >>, << "s", "a", "t" >>, << "s", "u", "n" >> >>

UpperChar(c) ==
  IF IsLower(c) THEN UpperChars[CHOOSE i \in DOMAIN LowerChars : LowerChars[i] = c]
  ELSE c

\* String.prototype.trim
RECURSIVE trim(_)
trim(s) ==
  IF s = << >> THEN s
  ELSE IF Head(s) \in SpaceChars THEN trim(Tail(s))
  ELSE IF s[Len(s)] \in SpaceChars THEN trim(SubSeq(s, 1, Len(s) - 1))
  ELSE s

\* hoursString.split('\n')
RECURSIVE SplitLines(_)
SplitLines(s) ==
  IF \A i \in DOMAIN s : s[i] # "\n" THEN << s >>
  ELSE LET n == CHOOSE i \in DOMAIN s : s[i] = "\n" /\ \A j \in 1..(i - 1) : s[j] # "\n"
       IN << SubSeq(s, 1, n - 1) >> \o SplitLines(Drop(s, n))

\* .map(line => line.trim()).filter(line => line)
HourLines(s) == SelectSeq([k \in DOMAIN SplitLines(s) |-> trim(SplitLines(s)[k])],
                          LAMBDA line : line # << >>)

\* a greedy class repetition such as [\s:]* from position p: the position of
\* the first character at or after p that is not in the class
SkipWhile(s, p, class) ==
  CHOOSE q \in p..(Len(s) + 1) :
    /\ q = Len(s) + 1 \/ s[q] \notin class
    /\ \A r \in p..(q - 1) : s[r] \in class

IsDigitAt(s, p) == p >= 1 /\ p <= Len(s) /\ s[p] \in DigitChars
IsCharAt(s, p, c) == p >= 1 /\ p <= Len(s) /\ LowerChar(s[p]) = c

\* the literal text of a day name at position p, letter case ignored (/i)
IsDayAt(s, p, day) ==
  /\ p + Len(day) - 1 <= Len(s)
  /\ \A k \in DOMAIN day : LowerChar(s[p + k - 1]) = day[k]

\* \d{1,2}:\d{2} at position p: the number of hour digits, 0 for no match
HourDigits(s, p) ==
  IF IsDigitAt(s, p) /\ IsDigitAt(s, p + 1) /\ IsCharAt(s, p + 2, ":")
     /\ IsDigitAt(s, p + 3) /\ IsDigitAt(s, p + 4) THEN 2
  ELSE IF IsDigitAt(s, p) /\ IsCharAt(s, p + 1, ":")
          /\ IsDigitAt(s, p + 2) /\ IsDigitAt(s, p + 3) THEN 1
  ELSE 0

\* the group (\d{1,2}:\d{2}\s*(am|pm)?) at position p, given the end of its
\* \s* : [ok, stop, time, ampm], stop the position after the group
TimeGroup(s, p, digits, ws) ==
  IF digits = 0
  THEN [ok |-> FALSE, stop |-> p, time |-> Undefined, ampm |-> Undefined]
  ELSE IF (IsCharAt(s, ws, "a") \/ IsCharAt(s, ws, "p")) /\ IsCharAt(s, ws + 1, "m")
       THEN [ok |-> TRUE, stop |-> ws + 2, time |-> SubSeq(s, p, ws + 1),
             ampm |-> SubSeq(s, ws, ws + 1)]
       ELSE [ok |-> TRUE, stop |-> ws, time |-> SubSeq(s, p, ws - 1), ampm |-> Undefined]

MatchTime(s, p) ==
  TimeGroup(s, p, HourDigits(s, p),
            IF HourDigits(s, p) = 0 THEN p
            ELSE SkipWhile(s, p + HourDigits(s, p) + 3, SpaceChars))

\* the tail shared by both expressions, from position p:
\* [\s:]*(time)[\s-]*(time); the two time groups
TimesFrom(s, p) ==
  LET open == MatchTime(s, SkipWhile(s, p, SpaceChars \cup { ":" }))
  IN IF open.ok
     THEN << open, MatchTime(s, SkipWhile(s, open.stop, SpaceChars \cup { "-" })) >>
     ELSE << open, open >>

\* the first expression tried at start position p with day alternative d:
\* the groups match[1..5], or << >> for no match
DayTimesAt(s, p, d) ==
  IF ~IsDayAt(s, p, DayNames[d]) THEN << >>
  ELSE LET t == TimesFrom(s, p + Len(DayNames[d]))
       IN IF t[1].ok /\ t[2].ok
          THEN << SubSeq(s, p, p + Len(DayNames[d]) - 1),
                  t[1].time, t[1].ampm, t[2].time, t[2].ampm >>
          ELSE << >>

\* the second expression tried at start position p with day alternatives d
\* and e: the groups match[1..5] (match[6], the last am/pm, is not read)
DayRangeTimesAt(s, p, d, e) ==
  IF ~IsDayAt(s, p, DayNames[d]) THEN << >>
  ELSE LET q == SkipWhile(s, p + Len(DayNames[d]), SpaceChars \cup { "-" })
       IN IF ~IsDayAt(s, q, DayNames[e]) THEN << >>
          ELSE LET t == TimesFrom(s, q + Len(DayNames[e]))
               IN IF t[1].ok /\ t[2].ok
                  THEN << SubSeq(s, p, p + Len(DayNames[d]) - 1),
                          SubSeq(s, q, q + Len(DayNames[e]) - 1),
                          t[1].time, t[1].ampm, t[2].time >>
                  ELSE << >>

\* line.match(patterns[0]): the leftmost match, earliest alternative first
MatchDayTimes(s) ==
  LET found == { m \in (DOMAIN s) \X (DOMAIN DayNames) : DayTimesAt(s, m[1], m[2]) # << >> }
  IN IF found = {} THEN << >>
     ELSE LET first == CHOOSE m \in found : \A n \in found :
                          m[1] < n[1] \/ (m[1] = n[1] /\ m[2] <= n[2])
          IN DayTimesAt(s, first[1], first[2])

\* line.match(patterns[1])
MatchDayRangeTimes(s) ==
  LET found == { m \in (DOMAIN s) \X (DOMAIN DayNames) \X (DOMAIN DayNames) :
                   DayRangeTimesAt(s, m[1], m[2], m[3]) # << >> }
  IN IF found = {} THEN << >>
     ELSE LET first == CHOOSE m \in found : \A n \in found :
                          \/ m[1] < n[1]
                          \/ m[1] = n[1] /\ m[2] < n[2]
                          \/ m[1] = n[1] /\ m[2] = n[2] /\ m[3] <= n[3]
          IN DayRangeTimesAt(s, first[1], first[2], first[3])

\* a || b
OrElse(a, b) == IF Truthy(a) THEN a ELSE b

normalizeTime(time) == toLowerCase(trim(time))

\* the entry pushed for a match whose open and close are truthy, else << >>
HourOf(match) ==
  IF match # << >> /\ Truthy(OrElse(match[2], match[3])) /\ Truthy(OrElse(match[4], match[5]))
  THEN << [day |-> << UpperChar(LowerChar(match[1][1])) >> \o Tail(toLowerCase(match[1])),
           open |-> normalizeTime(OrElse(match[2], match[3])),
           close |-> normalizeTime(OrElse(match[4], match[5]))] >>
  ELSE << >>

\* the inner loop as it would be with the day-range pattern tried first
LineHoursRangeFirst(line) ==
  IF HourOf(MatchDayRangeTimes(line)) # << >> THEN HourOf(MatchDayRangeTimes(line))
  ELSE HourOf(MatchDayTimes(line))

\* the inner loop over the two patterns: the first that yields an entry
LineHours(line) ==
  IF HourOf(MatchDayTimes(line)) # << >> THEN HourOf(MatchDayTimes(line))
  ELSE HourOf(MatchDayRangeTimes(line))

RECURSIVE LinesHours(_)
LinesHours(lines) ==
  IF lines = << >> THEN << >> ELSE LineHours(Head(lines)) \o LinesHours(Tail(lines))

\* absent hours: parseHours returns undefined, never an empty array
NoHours == << >>
\* parseHours throws where hoursString.split is not a function
parseHoursThrows(hoursString) == hoursString = HoursArray

parseHours(hoursString) ==
  IF ~Truthy(hoursString) THEN NoHours ELSE LinesHours(HourLines(hoursString))

\* ------------------------------------------------------------------------
\* lib/normalize.ts
\* ------------------------------------------------------------------------
\* normalizeRestaurantData throws where parseHours throws; nothing else in
\* it can
normalizeThrows(scrapedData, sourceUrl) == parseHoursThrows(scrapedData.hours)

\* normalizeRestaurantData as it would be with a slug made unique per scrape
\* (the time of the scrape appended)
normalizeRestaurantDataStampedSlug(scrapedData, sourceUrl, now) ==
  [slug |-> createSlugFromUrl(sourceUrl) \o << "-" >> \o now,
   hours |-> parseHours(scrapedData.hours),
   name |-> IF Truthy(scrapedData.name) THEN scrapedData.name
            ELSE << "R", "e", "s", "t", "a", "u", "r", "a", "n", "t" >>,
   heroImage |-> scrapedData.heroImage,
   logo |-> scrapedData.logo,
   sections |-> [k \in DOMAIN scrapedData.sections |->
                   [title |-> scrapedData.sections[k].title,
                    image |-> scrapedData.sections[k].image]],
   reviews |-> [k \in DOMAIN scrapedData.reviews |->
                   [rating |-> scrapedData.reviews[k].rating]],
   menu |-> [k \in DOMAIN scrapedData.menu |->
               [name |-> scrapedData.menu[k].name,
                items |-> [i \in DOMAIN scrapedData.menu[k].items |->
                             [name |-> scrapedData.menu[k].items[i].name,
                              image |-> scrapedData.menu[k].items[i].image]]]],
   theme |-> DefaultTheme,
   sourceUrl |-> sourceUrl,
   lastScrapedAt |-> now]

\* the record normalizeRestaurantData returns when it returns
normalizeRestaurantData(scrapedData, sourceUrl, now) ==
  [slug |-> createSlugFromUrl(sourceUrl),
   hours |-> parseHours(scrapedData.hours),
   name |-> IF Truthy(scrapedData.name) THEN scrapedData.name
            ELSE << "R", "e", "s", "t", "a", "u", "r", "a", "n", "t" >>,
   heroImage |-> scrapedData.heroImage,
   logo |-> scrapedData.logo,
   sections |-> [k \in DOMAIN scrapedData.sections |->
                   [title |-> scrapedData.sections[k].title,
                    image |-> scrapedData.sections[k].image]],
   reviews |-> [k \in DOMAIN scrapedData.reviews |->
                   [rating |-> scrapedData.reviews[k].rating]],
   menu |-> [k \in DOMAIN scrapedData.menu |->
               [name |-> scrapedData.menu[k].name,
                items |-> [i \in DOMAIN scrapedData.menu[k].items |->
                             [name |-> scrapedData.menu[k].items[i].name,
                              image |-> scrapedData.menu[k].items[i].image]]]],
   theme |-> DefaultTheme,
   sourceUrl |-> sourceUrl,
   lastScrapedAt |-> now]

\* ------------------------------------------------------------------------
\* lib/rewrite.ts
\* ------------------------------------------------------------------------
\* What the chat-completion call can come back with, given the record sent:
\* a thrown error (service error, timeout), no content, text that is not
\* JSON, or a JSON object.  The JSON objects are the record sent with one
\* change the model may make.
ModelJson(raw) ==
  { raw,
    [raw EXCEPT !.name = WoHopClean],
    [raw EXCEPT !.slug = OtherSlug],
    [raw EXCEPT !.slug = Undefined],
    [raw EXCEPT !.theme = NoThemeFields],
    [raw EXCEPT !.theme = [primary |-> << "#", "0" >>, accent |-> Undefined,
                           heroOverlay |-> Undefined]],
    [raw EXCEPT !.sourceUrl = OtherUrl],
    [raw EXCEPT !.sourceUrl = NotAUrl],
    [raw EXCEPT !.lastScrapedAt = OtherTime],
    [raw EXCEPT !.reviews = << [rating |-> 9] >>] }

ModelResponses(raw) ==
  { [kind |-> "error"], [kind |-> "empty"], [kind |-> "nonjson"] }
    \cup { [kind |-> "json", value |-> j] : j \in ModelJson(raw) }

\* no call was made
NoResponse == [kind |-> "none"]

\* rewriteContent as it would be with JSON.parse outside the try block
rewriteContentParseOutsideTry(raw, hasKey, response) ==
  IF ~hasKey THEN [threw |-> FALSE, site |-> raw, isRaw |-> TRUE, calls |-> 0]
  ELSE IF response.kind \in { "error", "empty" }
       THEN [threw |-> FALSE, site |-> raw, isRaw |-> TRUE, calls |-> 1]
       ELSE IF response.kind = "nonjson"
            THEN [threw |-> TRUE, site |-> raw, isRaw |-> TRUE, calls |-> 1]
            ELSE IF SchemaParse(response.value).ok
                 THEN [threw |-> FALSE, site |-> SchemaParse(response.value).value,
                       isRaw |-> FALSE, calls |-> 1]
                 ELSE [threw |-> FALSE, site |-> raw, isRaw |-> TRUE, calls |-> 1]

\* rewriteContent as it would be if the catch block rethrew
rewriteContentNoCatch(raw, hasKey, response) ==
  IF ~hasKey THEN [threw |-> FALSE, site |-> raw, isRaw |-> TRUE, calls |-> 0]
  ELSE IF response.kind \in { "error", "empty", "nonjson" }
       THEN [threw |-> TRUE, site |-> raw, isRaw |-> TRUE, calls |-> 1]
       ELSE IF SchemaParse(response.value).ok
            THEN [threw |-> FALSE, site |-> SchemaParse(response.value).value,
                  isRaw |-> FALSE, calls |-> 1]
            ELSE [threw |-> TRUE, site |-> raw, isRaw |-> TRUE, calls |-> 1]

\* rewriteContent as it would be without the credential check: the call is
\* made without a key and fails
rewriteContentNoKeyCheck(raw, hasKey, response) ==
  IF ~hasKey \/ response.kind \in { "error", "empty", "nonjson" }
  THEN [threw |-> FALSE, site |-> raw, isRaw |-> TRUE, calls |-> 1]
  ELSE IF SchemaParse(response.value).ok
       THEN [threw |-> FALSE, site |-> SchemaParse(response.value).value,
             isRaw |-> FALSE, calls |-> 1]
       ELSE [threw |-> FALSE, site |-> raw, isRaw |-> TRUE, calls |-> 1]

\* [threw, site, isRaw, calls]: whether rewriteContent rejects, the record
\* it resolves to, whether that is the object `raw` itself, and the number
\* of chat-completion calls it made
rewriteContent(raw, hasKey, response) ==
  IF ~hasKey THEN [threw |-> FALSE, site |-> raw, isRaw |-> TRUE, calls |-> 0]
  ELSE IF response.kind \in { "error", "empty", "nonjson" }
       THEN [threw |-> FALSE, site |-> raw, isRaw |-> TRUE, calls |-> 1]
       ELSE LET validated == SchemaParse(response.value)
            IN IF validated.ok
               THEN [threw |-> FALSE, site |-> validated.value, isRaw |-> FALSE, calls |-> 1]
               ELSE [threw |-> FALSE, site |-> raw, isRaw |-> TRUE, calls |-> 1]

\* ------------------------------------------------------------------------
\* lib/images.ts
\* ------------------------------------------------------------------------
JpgExt == << ".", "j", "p", "g" >>
HeroFile == << "h", "e", "r", "o" >> \o JpgExt
LogoFile == << "l", "o", "g", "o" >> \o JpgExt
ImageFallbackFile == << "i", "m", "a", "g", "e" >> \o JpgExt
ImportsPrefix == << "/", "_", "i", "m", "p", "o", "r", "t", "s", "/" >>
PublicDir == << "p", "u", "b", "l", "i", "c" >>

\* what the origin of an image does when the image is fetched; with "hang"
\* it never completes its response, and no timer or AbortSignal ends the
\* await of fetch(url) / response.arrayBuffer()
FetchOutcomes == { "ok", "http_error", "network_error", "hang" }

\* path.basename of a URL path: the text after its last "/"
Basename(path) ==
  LET hits == { i \in 1..Len(path) : path[i] = "/" }
      last == IF hits = {} THEN 0 ELSE CHOOSE i \in hits : \A j \in hits : j <= i
  IN Drop(path, last)

\* downloadImage as it would be without its try/catch: a failed download
\* rejects
downloadImageNoCatch(url, slug, filename, outcome) ==
  IF slug = Undefined \/ ~ParseUrl(url).ok \/ outcome # "ok"
  THEN [threw |-> TRUE, hung |-> FALSE, path |-> Undefined, files |-> << >>, dirs |-> {}]
  ELSE [threw |-> FALSE, hung |-> FALSE,
        path |-> ImportsPrefix \o slug \o << "/" >> \o filename,
        files |-> << [file |-> PublicDir \o ImportsPrefix \o slug \o << "/" >> \o filename,
                      bytes |-> url] >>,
        dirs |-> { slug }]

\* downloadImage(url, slug, filename) when the origin answers `outcome`:
\* [threw, hung, path, files, dirs]: whether the call rejects, whether it
\* never settles, the public path returned (Undefined for null), the files
\* written (file path and the bytes, named by their origin) and the
\* directories created.  slug is Undefined when the caller passes none:
\* path.join then throws a TypeError, which the catch turns into null.
downloadImage(url, slug, filename, outcome) ==
  LET parsed == ParseUrl(url)
      base == Basename(parsed.pathname)
      finalFilename ==
        IF Truthy(filename) THEN filename
        ELSE IF Truthy(base) THEN base ELSE ImageFallbackFile
      filePath == PublicDir \o ImportsPrefix \o slug \o << "/" >> \o finalFilename
      failed == [threw |-> FALSE, hung |-> FALSE, path |-> Undefined, files |-> << >>,
                 dirs |-> {}]
  IN IF slug = Undefined THEN failed
     ELSE IF ~parsed.ok THEN [failed EXCEPT !.dirs = { slug }]
     ELSE IF outcome = "hang" THEN [failed EXCEPT !.dirs = { slug }, !.hung = TRUE]
     ELSE IF outcome # "ok" THEN [failed EXCEPT !.dirs = { slug }]
     ELSE [threw |-> FALSE, hung |-> FALSE,
           path |-> ImportsPrefix \o slug \o << "/" >> \o finalFilename,
           files |-> << [file |-> filePath, bytes |-> url] >>,
           dirs |-> { slug }]

\* site.x && !site.x.startsWith('/')
IsRemote(ref) == Truthy(ref) /\ ~StartsWith(ref, << "/" >>)

\* the image references of a record, in the order downloadAllImages visits
\* them: hero, logo, the items of each menu category, the sections
RECURSIVE MenuRefs(_, _)
MenuRefs(menu, k) ==
  IF k > Len(menu) THEN << >>
  ELSE [i \in DOMAIN menu[k].items |-> << "menu", k, i >>] \o MenuRefs(menu, k + 1)

ImageRefs(site) ==
  << << "hero", 0, 0 >>, << "logo", 0, 0 >> >>
    \o MenuRefs(site.menu, 1)
    \o [k \in DOMAIN site.sections |-> << "section", k, 0 >>]

\* the value a reference holds in a record
RefValue(site, ref) ==
  CASE ref[1] = "hero" -> site.heroImage
    [] ref[1] = "logo" -> site.logo
    [] ref[1] = "menu" -> site.menu[ref[2]].items[ref[3]].image
    [] ref[1] = "section" -> site.sections[ref[2]].image

\* the file name downloadAllImages passes for a reference
RefFilename(site, ref) ==
  CASE ref[1] = "hero" -> HeroFile
    [] ref[1] = "logo" -> LogoFile
    [] ref[1] = "menu" -> slugify(site.menu[ref[2]].items[ref[3]].name) \o JpgExt
    [] ref[1] = "section" -> slugify(site.sections[ref[2]].title) \o JpgExt

RemoteRefs(site) ==
  LET refs == ImageRefs(site)
  IN { r \in { refs[n] : n \in DOMAIN refs } : IsRemote(RefValue(site, r)) }

RemoteUrls(site) == { RefValue(site, r) : r \in RemoteRefs(site) }

\* the download made for one reference
RefDownload(site, slug, outcomes, ref) ==
  LET value == RefValue(site, ref)
  IN downloadImage(value, slug, RefFilename(site, ref), outcomes[value])

\* the value of a reference after its `if (...) { ... if (localPath) ... }`
Localized(site, slug, outcomes, ref) ==
  LET value == RefValue(site, ref)
      localPath == RefDownload(site, slug, outcomes, ref).path
  IN IF IsRemote(value) /\ Truthy(localPath) THEN localPath ELSE value

\* a download followed by the later ones: none follows a download that
\* never settles
AwaitThen(download, later) ==
  IF download.hung THEN << download >> ELSE << download >> \o later

\* the downloads made, in order, one [ref, url, threw, hung, path, files,
\* dirs] per remote reference
RECURSIVE Downloads(_, _, _, _)
Downloads(site, slug, outcomes, refs) ==
  IF refs = << >> THEN << >>
  ELSE IF IsRemote(RefValue(site, Head(refs)))
       THEN AwaitThen([ref |-> Head(refs), url |-> RefValue(site, Head(refs))]
                        @@ RefDownload(site, slug, outcomes, Head(refs)),
                      Downloads(site, slug, outcomes, Tail(refs)))
       ELSE Downloads(site, slug, outcomes, Tail(refs))

\* item.image = localPath / section.image = localPath: the menu and the
\* sections after the loops
LocalizedMenu(site, slug, outcomes) ==
  [k \in DOMAIN site.menu |->
     [site.menu[k] EXCEPT !.items =
        [i \in DOMAIN site.menu[k].items |->
           [site.menu[k].items[i] EXCEPT
              !.image = Localized(site, slug, outcomes, << "menu", k, i >>)]]]]

LocalizedSections(site, slug, outcomes) ==
  [k \in DOMAIN site.sections |->
     [site.sections[k] EXCEPT
        !.image = Localized(site, slug, outcomes, << "section", k, 0 >>)]]

\* the result of downloadAllImages, from the downloads it made and the
\* values its references end with: [threw, hung, updatedSite, site,
\* downloads]; when hung the call never returns.
\* updatedSite = {...site} is a shallow copy: heroImage and logo are
\* assigned on the copy, while the menu items and the sections are the
\* objects of `site` itself and are assigned in place.
ImagesResult(site, made, hero, logo, menu, sections) ==
  [threw |-> \E n \in DOMAIN made : made[n].threw,
   hung |-> \E n \in DOMAIN made : made[n].hung,
   updatedSite |-> [site EXCEPT !.heroImage = hero, !.logo = logo, !.menu = menu,
                                !.sections = sections],
   site |-> [site EXCEPT !.menu = menu, !.sections = sections],
   downloads |-> made]

downloadAllImages(site, slug, outcomes) ==
  ImagesResult(site,
               Downloads(site, slug, outcomes, ImageRefs(site)),
               Localized(site, slug, outcomes, << "hero", 0, 0 >>),
               Localized(site, slug, outcomes, << "logo", 0, 0 >>),
               LocalizedMenu(site, slug, outcomes),
               LocalizedSections(site, slug, outcomes))

\* fs.writeFileSync applied to the files of the downloads, in order
RECURSIVE WriteFiles(_, _)
WriteFiles(store, files) ==
  IF files = << >> THEN store
  ELSE WriteFiles([f \in DOMAIN store \cup { Head(files).file } |->
                     IF f = Head(files).file THEN Head(files).bytes ELSE store[f]],
                  Tail(files))

RECURSIVE AllFiles(_)
AllFiles(downloads) ==
  IF downloads = << >> THEN << >> ELSE Head(downloads).files \o AllFiles(Tail(downloads))

AllDirs(downloads) == UNION { downloads[n].dirs : n \in DOMAIN downloads }

\* ------------------------------------------------------------------------
\* The pipeline: scripts/scrape.ts main and app/api/generate/route.ts POST
\* ------------------------------------------------------------------------
VARIABLES
  pc,               \* the stage the run is about to execute
  entry,            \* "cli" or "http"
  url,              \* process.argv[2] / the url of the request body
  useAI,            \* --ai / the useAI of the request body
  apiKey,           \* whether process.env.OPENAI_API_KEY is set
  scrapedData,      \* scrapedData / rawData
  normalizedData,   \* the object normalizeRestaurantData returned
  finalData,        \* finalData / normalized, then withImages
  aliased,          \* whether finalData is the object normalizedData
  content,          \* the content directory: file name -> artifact
  imageFiles,       \* public/_imports: file path -> bytes (named by origin)
  imageDirs,        \* the directories created under public/_imports
  result,           \* how the run ended: exit code / HTTP status
  log,              \* the stages completed by the run, in order
  apiCalls,         \* chat-completion calls made by the run
  modelResp,        \* what the chat-completion call came back with
  normalizedSnapshot, \* the record as normalizeRestaurantData returned it
  preImages,        \* the record handed to downloadAllImages
  imageOutcomes,    \* what each image origin answered
  downloads,        \* the downloads made by downloadAllImages, in order
  pageResp,         \* what the fetch of the page came back with
  failedAt,         \* the stage whose error ended the run
  slugUrls,         \* two URLs handed to createSlugFromUrl
  slugs,            \* the slugs it returned for them
  writes,           \* the writes made to the content directory, in order
  domPage,          \* a fetched document handed to the extractors
  extracted         \* what the extractors returned for it

runVars == << pc, entry, url, useAI, apiKey, scrapedData, normalizedData, finalData,
              aliased, content, imageFiles, imageDirs, result, log, apiCalls, modelResp,
              normalizedSnapshot, preImages, imageOutcomes, downloads, pageResp,
              failedAt >>
slugVars == << slugUrls, slugs >>
extractVars == << domPage, extracted >>
vars == << runVars, slugVars, writes, extractVars >>

\* no record yet
NoRecord == << >>

\* the stage has completed in this run
InLog(stage) == \E n \in DOMAIN log : log[n] = stage

\* a process about to start a run, with empty stores
RunInit ==
  /\ pc = "idle"
  /\ entry = "none"
  /\ url = Undefined
  /\ useAI = FALSE
  /\ apiKey = FALSE
  /\ scrapedData = NoRecord
  /\ normalizedData = NoRecord
  /\ finalData = NoRecord
  /\ aliased = FALSE
  /\ content = << >>
  /\ imageFiles = << >>
  /\ imageDirs = {}
  /\ result = "none"
  /\ log = << >>
  /\ apiCalls = 0
  /\ modelResp = NoResponse
  /\ normalizedSnapshot = NoRecord
  /\ preImages = NoRecord
  /\ imageOutcomes = << >>
  /\ downloads = << >>
  /\ pageResp = "none"
  /\ failedAt = "none"

Init ==
  /\ RunInit
  /\ slugUrls = << >>
  /\ slugs = << >>
  /\ writes = << >>
  /\ domPage = NoRecord
  /\ extracted = NoRecord

\* the catch of main (process.exit(1)) and the outer catch of POST (500)
Failure == IF entry = "cli" THEN "exit1" ELSE "500"

\* main up to its first await: `if (!url) process.exit(1)`
Main(u, ai, key) ==
  /\ pc = "idle"
  /\ entry' = "cli"
  /\ url' = u
  /\ useAI' = ai
  /\ apiKey' = key
  /\ IF ~Truthy(u)
     THEN pc' = "failed" /\ result' = "exit1" /\ failedAt' = "validate"
     ELSE pc' = "scrape" /\ result' = result /\ failedAt' = failedAt
  /\ UNCHANGED << scrapedData, normalizedData, finalData, aliased, content, imageFiles,
                  imageDirs, log, apiCalls, modelResp, normalizedSnapshot, preImages,
                  imageOutcomes, downloads, pageResp >>
  /\ UNCHANGED << slugVars, writes, extractVars >>

\* POST up to the scrape: `if (!url)` 400, `new URL(url)` throws 400
POST(u, ai, key) ==
  /\ pc = "idle"
  /\ entry' = "http"
  /\ url' = u
  /\ useAI' = ai
  /\ apiKey' = key
  /\ IF ~Truthy(u) \/ ~ParseUrl(u).ok
     THEN pc' = "failed" /\ result' = "400" /\ failedAt' = "validate"
     ELSE pc' = "scrape" /\ result' = result /\ failedAt' = failedAt
  /\ UNCHANGED << scrapedData, normalizedData, finalData, aliased, content, imageFiles,
                  imageDirs, log, apiCalls, modelResp, normalizedSnapshot, preImages,
                  imageOutcomes, downloads, pageResp >>
  /\ UNCHANGED << slugVars, writes, extractVars >>

\* what fetch(url) of the page can come back with; with "hang" the origin
\* never completes its response, and no timer or AbortSignal ends the await
\* of fetch(url) / response.text()
PageResponses == { "network_error", "http_error", "html", "not_html", "hang" }

\* scrapeRestaurant(url): [threw, hung, data]; when hung the call never
\* settles
scrapeRestaurant(u, response, page) ==
  IF ~ParseUrl(u).ok \/ response = "network_error"
  THEN [threw |-> TRUE, hung |-> FALSE, data |-> NoRecord]
  ELSE IF response = "hang" THEN [threw |-> FALSE, hung |-> TRUE, data |-> NoRecord]
  ELSE IF response = "http_error" THEN [threw |-> TRUE, hung |-> FALSE, data |-> NoRecord]
  ELSE IF response = "html" THEN [threw |-> FALSE, hung |-> FALSE, data |-> page]
  ELSE [threw |-> FALSE, hung |-> FALSE, data |-> EmptyScrape]

\* `if (useAI)` in main, `if (useAI && process.env.OPENAI_API_KEY)` in POST
RewriteRequested ==
  IF entry = "cli" THEN useAI ELSE useAI /\ apiKey

\* the order of the steps as it would be with the images downloaded before
\* the rewrite
NextStageImagesFirst(stage) ==
  CASE stage = "scrape" -> "normalize"
    [] stage = "normalize" -> "images"
    [] stage = "images" -> IF RewriteRequested THEN "rewrite" ELSE "persist"
    [] stage = "rewrite" -> "persist"
    [] stage = "persist" -> "done"

\* the order of the steps of main and of POST: the stage that follows a
\* completed stage
NextStage(stage) ==
  CASE stage = "scrape" -> "normalize"
    [] stage = "normalize" -> IF RewriteRequested THEN "rewrite" ELSE "images"
    [] stage = "rewrite" -> "images"
    [] stage = "images" -> "persist"
    [] stage = "persist" -> "done"

\* Step 1: await scrapeRestaurant(url); a run whose await never settles
\* stays at "waiting"
Scrape(response, page) ==
  /\ pc = "scrape"
  /\ \E r \in { scrapeRestaurant(url, response, page) } :
        IF r.hung
        THEN /\ pc' = "waiting"
             /\ UNCHANGED << scrapedData, log, result, failedAt >>
        ELSE IF r.threw
        THEN /\ pc' = "failed"
             /\ result' = Failure
             /\ failedAt' = "scrape"
             /\ UNCHANGED << scrapedData, log >>
        ELSE /\ pc' = NextStage("scrape")
             /\ scrapedData' = r.data
             /\ log' = Append(log, "scrape")
             /\ UNCHANGED << result, failedAt >>
  /\ pageResp' = response
  /\ UNCHANGED << entry, url, useAI, apiKey, normalizedData, finalData, aliased, content,
                  imageFiles, imageDirs, apiCalls, modelResp, normalizedSnapshot,
                  preImages, imageOutcomes, downloads >>
  /\ UNCHANGED << slugVars, writes, extractVars >>

\* Step 2: normalizeRestaurantData(scrapedData, url); an error it throws
\* reaches the catch of main / the outer catch of POST
Normalize(now) ==
  /\ pc = "normalize"
  /\ IF normalizeThrows(scrapedData, url)
     THEN /\ pc' = "failed"
          /\ result' = Failure
          /\ failedAt' = "normalize"
          /\ UNCHANGED << normalizedData, finalData, normalizedSnapshot, aliased, log >>
     ELSE /\ normalizedData' = normalizeRestaurantData(scrapedData, url, now)
          /\ finalData' = normalizedData'
          /\ normalizedSnapshot' = normalizedData'
          /\ aliased' = TRUE
          /\ log' = Append(log, "normalize")
          /\ pc' = NextStage("normalize")
          /\ UNCHANGED << result, failedAt >>
  /\ UNCHANGED << entry, url, useAI, apiKey, scrapedData, content, imageFiles, imageDirs,
                  apiCalls, modelResp, preImages, imageOutcomes, downloads, pageResp >>
  /\ UNCHANGED << slugVars, writes, extractVars >>

\* Step 3: await rewriteContent(normalizedData); a rejection reaches the
\* catch of main, and is swallowed by the inner catch of POST
Rewrite(response) ==
  /\ pc = "rewrite"
  /\ \E r \in { rewriteContent(finalData, apiKey, response) } :
        /\ apiCalls' = apiCalls + r.calls
        /\ modelResp' = IF r.calls > 0 THEN response ELSE NoResponse
        /\ IF r.threw /\ entry = "cli"
           THEN /\ pc' = "failed"
                /\ result' = Failure
                /\ failedAt' = "rewrite"
                /\ UNCHANGED << finalData, aliased, log >>
           ELSE /\ pc' = NextStage("rewrite")
                /\ finalData' = IF r.threw THEN finalData ELSE r.site
                /\ aliased' = IF r.threw THEN aliased ELSE aliased /\ r.isRaw
                /\ log' = Append(log, "rewrite")
                /\ UNCHANGED << result, failedAt >>
  /\ UNCHANGED << entry, url, useAI, apiKey, scrapedData, normalizedData, content,
                  imageFiles, imageDirs, normalizedSnapshot, preImages, imageOutcomes,
                  downloads, pageResp >>
  /\ UNCHANGED << slugVars, writes, extractVars >>

\* the slug argument of downloadAllImages: createSlugFromUrl(url) in main,
\* none in POST (the call is downloadAllImages(normalized))
ImageSlug == IF entry = "cli" THEN createSlugFromUrl(url) ELSE Undefined

\* Step 4: await downloadAllImages(finalData, slug); a run whose await never
\* settles stays at "waiting", with the files of the downloads that settled
DownloadImages(outcomes) ==
  /\ pc = "images"
  /\ \E r \in { downloadAllImages(finalData, ImageSlug, outcomes) } :
        /\ downloads' = r.downloads
        /\ imageFiles' = WriteFiles(imageFiles, AllFiles(r.downloads))
        /\ imageDirs' = imageDirs \cup AllDirs(r.downloads)
        /\ IF r.hung
           THEN /\ pc' = "waiting"
                /\ UNCHANGED << finalData, normalizedData, aliased, log, result, failedAt >>
           ELSE IF r.threw
           THEN /\ pc' = "failed"
                /\ result' = Failure
                /\ failedAt' = "images"
                /\ UNCHANGED << finalData, normalizedData, aliased, log >>
           ELSE /\ pc' = NextStage("images")
                /\ finalData' = r.updatedSite
                /\ normalizedData' = IF aliased THEN r.site ELSE normalizedData
                /\ aliased' = FALSE
                /\ log' = Append(log, "images")
                /\ UNCHANGED << result, failedAt >>
  /\ preImages' = finalData
  /\ imageOutcomes' = outcomes
  /\ UNCHANGED << entry, url, useAI, apiKey, scrapedData, content, apiCalls,
                  modelResp, normalizedSnapshot, pageResp >>
  /\ UNCHANGED << slugVars, writes, extractVars >>

JsonExt == << ".", "j", "s", "o", "n" >>

\* JSON.stringify(record, null, 2): a key whose value is undefined is left
\* out, which is how an absent field is held here already
JSONStringify(record) == record

\* `${slug}.json` in main, `${withImages.slug}.json` in POST
ArtifactFile ==
  (IF entry = "cli" THEN createSlugFromUrl(url) ELSE finalData.slug) \o JsonExt

\* writeFileSync as it would be if it left an existing file as it is
writeFileSyncKeepExisting(store, file, data) ==
  [f \in DOMAIN store \cup { file } |-> IF f \in DOMAIN store THEN store[f] ELSE data]

\* fs.writeFileSync(file, data): the file is created or replaced, as one
\* synchronous call
writeFileSync(store, file, data) ==
  [f \in DOMAIN store \cup { file } |-> IF f = file THEN data ELSE store[f]]

\* Step 5: writeFileSync(filePath, JSON.stringify(finalData, null, 2))
Persist ==
  /\ pc = "persist"
  /\ content' = writeFileSync(content, ArtifactFile, JSONStringify(finalData))
  /\ log' = Append(log, "persist")
  /\ pc' = NextStage("persist")
  /\ result' = IF entry = "cli" THEN "exit0" ELSE "200"
  /\ UNCHANGED << entry, url, useAI, apiKey, scrapedData, normalizedData, finalData,
                  aliased, imageFiles, imageDirs, apiCalls, modelResp, normalizedSnapshot,
                  preImages, imageOutcomes, downloads, pageResp, failedAt >>
  /\ writes' = Append(writes, [file |-> ArtifactFile, record |-> JSONStringify(finalData)])
  /\ UNCHANGED << slugVars, extractVars >>

\* Step 5 when mkdirSync or writeFileSync throws (the disk refuses the write)
PersistFails ==
  /\ pc = "persist"
  /\ pc' = "failed"
  /\ result' = Failure
  /\ failedAt' = "persist"
  /\ UNCHANGED << entry, url, useAI, apiKey, scrapedData, normalizedData, finalData,
                  aliased, content, imageFiles, imageDirs, log, apiCalls, modelResp,
                  normalizedSnapshot, preImages, imageOutcomes, downloads, pageResp >>
  /\ UNCHANGED << slugVars, writes, extractVars >>

Next ==
  \/ \E u \in Urls, ai \in BOOLEAN, key \in BOOLEAN : Main(u, ai, key)
  \/ \E u \in Urls, ai \in BOOLEAN, key \in BOOLEAN : POST(u, ai, key)
  \/ \E response \in PageResponses, page \in ScrapedPages : Scrape(response, page)
  \/ \E now \in Times : Normalize(now)
  \/ \E response \in (IF apiKey /\ pc = "rewrite" THEN ModelResponses(finalData)
                      ELSE { NoResponse }) : Rewrite(response)
  \/ \E outcomes \in (IF pc = "images" THEN [RemoteUrls(finalData) -> FetchOutcomes]
                      ELSE { << >> }) : DownloadImages(outcomes)
  \/ Persist
  \/ PersistFails

Spec == Init /\ [][Next]_vars

\* ------------------------------------------------------------------------
\* Runs for the same slug: a run of the pipeline next to the writes of other
\* runs for the same URL
\* ------------------------------------------------------------------------
\* how many other runs persist while this one runs
MaxOtherWrites == 1

RunUrls == { UrlWww }

\* the pages of the site at the times of the runs
RunPages ==
  { p \in ScrapedPages :
      p.menu = << >> /\ p.reviews = << >> /\ p.hours = Undefined /\ p.logo = Undefined }

\* the final record of another run for the same URL, made at another time
\* from the site as it was then
OtherRecords == { normalizeRestaurantData(p, UrlWww, OtherTime) : p \in RunPages }

OursWritten == IF InLog("persist") THEN 1 ELSE 0

\* Step 5 of another run for the same URL, at any point of this run
OtherRunPersists(record) ==
  /\ pc # "start"
  /\ Len(writes) < MaxOtherWrites + OursWritten
  /\ \E file \in { createSlugFromUrl(url) \o JsonExt } :
        /\ content' = writeFileSync(content, file, JSONStringify(record))
        /\ writes' = Append(writes, [file |-> file, record |-> JSONStringify(record)])
  /\ UNCHANGED << pc, entry, url, useAI, apiKey, scrapedData, normalizedData, finalData,
                  aliased, imageFiles, imageDirs, result, log, apiCalls, modelResp,
                  normalizedSnapshot, preImages, imageOutcomes, downloads, pageResp,
                  failedAt >>
  /\ UNCHANGED << slugVars, extractVars >>

NextRuns ==
  \/ \E u \in RunUrls, ai \in BOOLEAN, key \in BOOLEAN : Main(u, ai, key)
  \/ \E u \in RunUrls, ai \in BOOLEAN, key \in BOOLEAN : POST(u, ai, key)
  \/ \E response \in PageResponses, page \in RunPages : Scrape(response, page)
  \/ \E now \in Times : Normalize(now)
  \/ \E response \in (IF apiKey /\ pc = "rewrite" THEN ModelResponses(finalData)
                      ELSE { NoResponse }) : Rewrite(response)
  \/ \E outcomes \in (IF pc = "images" THEN [RemoteUrls(finalData) -> FetchOutcomes]
                      ELSE { << >> }) : DownloadImages(outcomes)
  \/ Persist
  \/ PersistFails
  \/ \E record \in OtherRecords : OtherRunPersists(record)

SpecRuns == Init /\ [][NextRuns]_vars

\* ------------------------------------------------------------------------
\* createSlugFromUrl applied to pairs of URLs
\* ------------------------------------------------------------------------
SlugSchemes == { << "h", "t", "t", "p" >>, << "h", "t", "t", "p", "s" >> }
\* hostnames, before an optional "www." is put in front of them
SlugHosts ==
  { << "A", ".", "c", "o" >>, << "a", ".", "c", "o" >>, << "a", ".", "b", ".", "c", "o" >>,
    << "a", "b", ".", "c", "o" >>, << "w", "w", "w", ".", "b" >>,
    << "w", "o", "h", "o", "p", "1", "7", ".", "c", "o", "m" >> }
SlugPaths == { << >>, << "/" >>, << "/", "m" >> }
WwwPrefix == << "w", "w", "w", "." >>

SlugUrlParts ==
  [scheme : SlugSchemes, www : BOOLEAN, host : SlugHosts, path : SlugPaths]

\* the URL text made of the parts
UrlText(parts) ==
  parts.scheme \o << ":", "/", "/" >> \o (IF parts.www THEN WwwPrefix ELSE << >>)
    \o parts.host \o parts.path

InitSlug ==
  /\ RunInit
  /\ slugUrls \in SlugUrlParts \X SlugUrlParts
  /\ slugs = << >>
  /\ writes = << >>
  /\ domPage = NoRecord
  /\ extracted = NoRecord

DeriveSlugs ==
  /\ slugUrls # << >>
  /\ slugs = << >>
  /\ slugs' = << createSlugFromUrl(UrlText(slugUrls[1])),
                 createSlugFromUrl(UrlText(slugUrls[2])) >>
  /\ UNCHANGED << runVars, slugUrls, writes, extractVars >>

NextSlug == DeriveSlugs

SpecSlug == InitSlug /\ [][NextSlug]_vars

\* ------------------------------------------------------------------------
\* normalizeRestaurantData applied to any scraped data and any URL text
\* ------------------------------------------------------------------------
NormalizeUrls == { UrlWww, UrlBad }

InitNormalize ==
  /\ pc = "normalize"
  /\ entry \in { "cli", "http" }
  /\ url \in NormalizeUrls
  /\ useAI = FALSE
  /\ apiKey = FALSE
  /\ scrapedData \in ScrapedPages \cup { EmptyScrape }
  /\ normalizedData = NoRecord
  /\ finalData = NoRecord
  /\ aliased = FALSE
  /\ content = << >>
  /\ imageFiles = << >>
  /\ imageDirs = {}
  /\ result = "none"
  /\ log = << "scrape" >>
  /\ apiCalls = 0
  /\ modelResp = NoResponse
  /\ normalizedSnapshot = NoRecord
  /\ preImages = NoRecord
  /\ imageOutcomes = << >>
  /\ downloads = << >>
  /\ pageResp = "html"
  /\ failedAt = "none"
  /\ slugUrls = << >>
  /\ slugs = << >>
  /\ writes = << >>
  /\ domPage = NoRecord
  /\ extracted = NoRecord

NextNormalize == \E now \in Times : Normalize(now)

SpecNormalize == InitNormalize /\ [][NextNormalize]_vars

\* ------------------------------------------------------------------------
\* normalizeRestaurantData applied a second time to the same arguments
\* ------------------------------------------------------------------------
\* the clock at the second call: the same instant or a later one
LaterTimes == Times \cup { OtherTime }

\* a second call normalizeRestaurantData(scrapedData, url), once the first
\* has returned; its result is held in normalizedData, the first result
\* stays in normalizedSnapshot
NormalizeAgain(now) ==
  /\ InLog("normalize")
  /\ normalizedData = normalizedSnapshot
  /\ ~normalizeThrows(scrapedData, url)
  /\ normalizedData' = normalizeRestaurantData(scrapedData, url, now)
  /\ UNCHANGED << pc, entry, url, useAI, apiKey, scrapedData, finalData, aliased, content,
                  imageFiles, imageDirs, result, log, apiCalls, modelResp,
                  normalizedSnapshot, preImages, imageOutcomes, downloads, pageResp,
                  failedAt >>
  /\ UNCHANGED << slugVars, writes, extractVars >>

NextNormalizeTwice ==
  \/ \E now \in Times : Normalize(now)
  \/ \E now \in LaterTimes : NormalizeAgain(now)

SpecNormalizeTwice == InitNormalize /\ [][NextNormalizeTwice]_vars

\* ------------------------------------------------------------------------
\* parseHours applied to texts of several lines
\* ------------------------------------------------------------------------
\* how many lines an hours text has
MaxLines == 2

LineClosed == << "C", "l", "o", "s", "e", "d" >>
LineNoMinutes == << "M", "o", "n", "d", "a", "y", ":", " ", "1", "1", "a", "m", "-", "1", "0", "p", "m" >>
LineDay == << " ", "s", "a", "t", " ", "1", "0", ":", "0", "0", "-", "2", ":", "3", "0", "p", "m" >>
LineDayRange == << "M", "o", "n", "-", "F", "r", "i", ":", " ", "9", ":", "0", "0", "a", "m",
                   " ", "-", " ", "5", ":", "3", "0", " ", "P", "M" >>
LineBlank == << " ", " " >>
HoursLineChoices == { LineClosed, LineNoMinutes, LineDay, LineDayRange, LineBlank }

RECURSIVE JoinLines(_)
JoinLines(lines) ==
  IF lines = << >> THEN << >>
  ELSE IF Len(lines) = 1 THEN lines[1]
  ELSE lines[1] \o << "\n" >> \o JoinLines(Tail(lines))

\* pages whose opening hours are a text of up to MaxLines lines
HoursPages ==
  { [EmptyScrape EXCEPT !.name = WoHop, !.hours = JoinLines(lines)] :
      lines \in BoundedSeq(HoursLineChoices, MaxLines) }

InitHours ==
  /\ pc = "normalize"
  /\ entry \in { "cli", "http" }
  /\ url \in NormalizeUrls
  /\ useAI = FALSE
  /\ apiKey = FALSE
  /\ scrapedData \in HoursPages
  /\ normalizedData = NoRecord
  /\ finalData = NoRecord
  /\ aliased = FALSE
  /\ content = << >>
  /\ imageFiles = << >>
  /\ imageDirs = {}
  /\ result = "none"
  /\ log = << "scrape" >>
  /\ apiCalls = 0
  /\ modelResp = NoResponse
  /\ normalizedSnapshot = NoRecord
  /\ preImages = NoRecord
  /\ imageOutcomes = << >>
  /\ downloads = << >>
  /\ pageResp = "html"
  /\ failedAt = "none"
  /\ slugUrls = << >>
  /\ slugs = << >>
  /\ writes = << >>
  /\ domPage = NoRecord
  /\ extracted = NoRecord

NextHours == \E now \in Times : Normalize(now)

SpecHours == InitHours /\ [][NextHours]_vars

\* ------------------------------------------------------------------------
\* lib/scrape.ts: the extractors applied to a fetched document
\* ------------------------------------------------------------------------
\* how many blocks of a kind a document holds
MaxBlocks == 2

\* `body.length > 50` in extractSections
MinBodyLength == 50

Filler(n) == [i \in 1..n |-> "x"]

Specials == << "S", "p", "e", "c", "i", "a", "l", "s" >>
NoText == << >>

\* the selectors extractSections and extractMenu go through, in order
SectionSelectors == << "section", ".section", ".content", ".about", ".story", ".history" >>
MenuSelectors == << ".menu", "#menu", ".menu-section", ".menu-category" >>

\* an element of the document that a section selector matches: the selectors
\* it matches, the text of its first heading, its whole text (the heading
\* included) and the src of its first image
SectionBlockChoices ==
  { [matches |-> m, heading |-> h,
     text |-> << " " >> \o h \o rest,
     image |-> IF ".about" \in m THEN ImgB ELSE Undefined] :
      m \in { { "section" }, { "section", ".about" } },
      h \in { Specials, NoText },
      rest \in { Filler(42), Filler(43), Filler(41) \o << " ", "\n" >> } }

\* an element that a menu selector matches: its first h2, h3 or
\* .category-name, its items (the text of each item's name element) and its
\* whole text
MenuItemChoices ==
  { << >>, << [name |-> Soup \o << " " >>, image |-> ImgA] >>,
    << [name |-> NoText, image |-> Undefined], [name |-> Soup, image |-> Undefined] >> }

RECURSIVE ItemsText(_)
ItemsText(items) ==
  IF items = << >> THEN << >> ELSE Head(items).name \o ItemsText(Tail(items))

MenuBlockChoices ==
  { [matches |-> m, heading |-> h, items |-> items,
     text |-> h \o ItemsText(items) \o rest] :
      m \in { { ".menu" }, { "#menu", ".menu-category" } },
      h \in { Mains, NoText },
      items \in MenuItemChoices,
      rest \in { NoText, Filler(MinBodyLength) } }

\* the JSON-LD object of the document; with no Restaurant or LocalBusiness
\* object (extractJsonLd returns null) every property read is undefined
NoJsonLd ==
  [name |-> Undefined, description |-> Undefined, telephone |-> Undefined,
   email |-> Undefined, openingHours |-> Undefined]
NoOpenGraph == [title |-> Undefined, description |-> Undefined]

LdName == << "L", "d" >>
OgTitle == << "O", "g" >>
TitleText == << "T", "i" >>
H1Text == << " ", "H", "1", " " >>
LdDescription == << "l", "d" >>
OgDescription == << "o", "g" >>
MetaDescription == << "m", "d" >>
LdPhone == << "5", "5", "5", "-", "0", "1" >>
TextPhone == << "5", "5", "5", "0", "1", "0", "0", "0", "0", "2" >>
LdEmail == << "l", "@", "a", ".", "c", "o" >>
TextEmail == << "t", "@", "a", ".", "c", "o" >>
TextHours == << "M", "o", "n", " ", "9", ":", "0", "0", "-", "5", ":", "0", "0" >>

\* a document with none of the above
EmptyDom ==
  [jsonLd |-> NoJsonLd, og |-> NoOpenGraph, title |-> NoText, h1 |-> NoText,
   metaDescription |-> Undefined, phoneMatch |-> Undefined, emailMatch |-> Undefined,
   hoursMatch |-> Undefined, sectionBlocks |-> << >>, menuBlocks |-> << >>]

\* documents: over the section blocks, over the menu blocks, over the sources
\* of name and tagline, and over the sources of phone, email and hours.
\* phoneMatch, emailMatch and hoursMatch are match[0] of the regular
\* expression on $('body').text(), undefined without a match
DomPages ==
  { [EmptyDom EXCEPT !.sectionBlocks = blocks] :
      blocks \in BoundedSeq(SectionBlockChoices, MaxBlocks) }
  \cup
  { [EmptyDom EXCEPT !.menuBlocks = blocks] :
      blocks \in BoundedSeq(MenuBlockChoices, MaxBlocks) }
  \cup
  { [EmptyDom EXCEPT !.jsonLd = [NoJsonLd EXCEPT !.name = ln, !.description = ld],
                     !.og = [title |-> ot, description |-> od],
                     !.title = t, !.h1 = h, !.metaDescription = md] :
      ln \in { Undefined, LdName }, ld \in { Undefined, LdDescription },
      ot \in { Undefined, OgTitle }, od \in { Undefined, OgDescription },
      t \in { NoText, TitleText }, h \in { NoText, H1Text },
      md \in { Undefined, MetaDescription } }
  \cup
  { [EmptyDom EXCEPT !.jsonLd = [NoJsonLd EXCEPT !.telephone = lp, !.email = le,
                                                  !.openingHours = lh],
                     !.phoneMatch = pm, !.emailMatch = em, !.hoursMatch = hm] :
      lp \in { Undefined, NoText, LdPhone }, le \in { Undefined, LdEmail },
      lh \in { Undefined, HoursWithMinutes, HoursArray },
      pm \in { Undefined, TextPhone }, em \in { Undefined, TextEmail },
      hm \in { Undefined, TextHours } }

\* extractName as it would be with the social-preview title tried first
extractNameOgFirst(page) ==
  IF Truthy(page.og.title) THEN page.og.title
  ELSE IF Truthy(page.jsonLd.name) THEN page.jsonLd.name
  ELSE IF Truthy(page.title) THEN page.title
  ELSE IF Truthy(trim(page.h1)) THEN trim(page.h1)
  ELSE Undefined

extractName(page) ==
  IF Truthy(page.jsonLd.name) THEN page.jsonLd.name
  ELSE IF Truthy(page.og.title) THEN page.og.title
  ELSE IF Truthy(page.title) THEN page.title
  ELSE IF Truthy(trim(page.h1)) THEN trim(page.h1)
  ELSE Undefined

extractTagline(page) ==
  IF Truthy(page.jsonLd.description) THEN page.jsonLd.description
  ELSE IF Truthy(page.og.description) THEN page.og.description
  ELSE IF Truthy(page.metaDescription) THEN page.metaDescription
  ELSE Undefined

extractPhone(page) ==
  IF Truthy(page.jsonLd.telephone) THEN page.jsonLd.telephone ELSE page.phoneMatch

extractEmail(page) ==
  IF Truthy(page.jsonLd.email) THEN page.jsonLd.email ELSE page.emailMatch

extractHours(page) ==
  IF Truthy(page.jsonLd.openingHours) THEN page.jsonLd.openingHours ELSE page.hoursMatch

\* the elements a selector matches, in document order
Select(blocks, selector) == SelectSeq(blocks, LAMBDA b : selector \in b.matches)

\* the callback of extractSections as it would be without the length test
SectionOfBlockAnyLength(block) ==
  IF trim(block.heading) # << >> /\ trim(block.text) # << >>
  THEN << [title |-> trim(block.heading), body |-> trim(block.text), image |-> block.image] >>
  ELSE << >>

\* the callback of $(selector).each in extractSections: what it pushes
SectionOfBlock(block) ==
  IF trim(block.heading) # << >> /\ trim(block.text) # << >>
     /\ Len(trim(block.text)) > MinBodyLength
  THEN << [title |-> trim(block.heading), body |-> trim(block.text), image |-> block.image] >>
  ELSE << >>

RECURSIVE SectionsOfBlocks(_)
SectionsOfBlocks(blocks) ==
  IF blocks = << >> THEN << >>
  ELSE SectionOfBlock(Head(blocks)) \o SectionsOfBlocks(Tail(blocks))

\* for (const selector of sectionSelectors) $(selector).each(...)
RECURSIVE SectionsFrom(_, _)
SectionsFrom(blocks, n) ==
  IF n > Len(SectionSelectors) THEN << >>
  ELSE SectionsOfBlocks(Select(blocks, SectionSelectors[n])) \o SectionsFrom(blocks, n + 1)

extractSections(page) == SectionsFrom(page.sectionBlocks, 1)

\* the items pushed: those whose name element has text
RECURSIVE NamedItems(_)
NamedItems(items) ==
  IF items = << >> THEN << >>
  ELSE (IF trim(Head(items).name) # << >>
        THEN << [name |-> trim(Head(items).name), image |-> Head(items).image] >>
        ELSE << >>) \o NamedItems(Tail(items))

\* the callback of extractMenu as it would be with the length test of
\* extractSections
MenuOfBlockLongBody(block) ==
  IF trim(block.heading) # << >> /\ NamedItems(block.items) # << >>
     /\ Len(trim(block.text)) > MinBodyLength
  THEN << [name |-> trim(block.heading), items |-> NamedItems(block.items)] >>
  ELSE << >>

\* the callback of $(selector).each in extractMenu: what it pushes
MenuOfBlock(block) ==
  IF trim(block.heading) # << >> /\ NamedItems(block.items) # << >>
  THEN << [name |-> trim(block.heading), items |-> NamedItems(block.items)] >>
  ELSE << >>

RECURSIVE MenuOfBlocks(_)
MenuOfBlocks(blocks) ==
  IF blocks = << >> THEN << >>
  ELSE MenuOfBlock(Head(blocks)) \o MenuOfBlocks(Tail(blocks))

\* for (const selector of menuSelectors) $(selector).each(...)
RECURSIVE MenuFrom(_, _)
MenuFrom(blocks, n) ==
  IF n > Len(MenuSelectors) THEN << >>
  ELSE MenuOfBlocks(Select(blocks, MenuSelectors[n])) \o MenuFrom(blocks, n + 1)

extractMenu(page) == MenuFrom(page.menuBlocks, 1)

InitExtract ==
  /\ RunInit
  /\ slugUrls = << >>
  /\ slugs = << >>
  /\ writes = << >>
  /\ domPage \in DomPages
  /\ extracted = NoRecord

\* the extractor calls of scrapeRestaurant on the loaded document
Extract ==
  /\ domPage # NoRecord
  /\ extracted = NoRecord
  /\ extracted' = [name |-> extractName(domPage), tagline |-> extractTagline(domPage),
                   phone |-> extractPhone(domPage), email |-> extractEmail(domPage),
                   hours |-> extractHours(domPage),
                   sections |-> extractSections(domPage), menu |-> extractMenu(domPage)]
  /\ UNCHANGED << runVars, slugVars, writes, domPage >>

NextExtract == Extract

SpecExtract == InitExtract /\ [][NextExtract]_vars

\* ------------------------------------------------------------------------
\* Properties
\* ------------------------------------------------------------------------
IsPrefix(s, t) == Len(s) <= Len(t) /\ s = SubSeq(t, 1, Len(s))

\* the key of the artifact: the artifact's file name without ".json"
ArtifactSlug == SubSeq(ArtifactFile, 1, Len(ArtifactFile) - Len(JsonExt))

\* a record with every image reference removed
WithoutImages(site) ==
  [site EXCEPT !.heroImage = Undefined,
               !.logo = Undefined,
               !.menu = [k \in DOMAIN site.menu |->
                           [site.menu[k] EXCEPT !.items =
                              [i \in DOMAIN site.menu[k].items |->
                                 [site.menu[k].items[i] EXCEPT !.image = Undefined]]]],
               !.sections = [k \in DOMAIN site.sections |->
                               [site.sections[k] EXCEPT !.image = Undefined]]]

\* C1: in every run, through main or POST, the stages complete in the order
\* scrape (fetch and extract), normalize, rewrite (when requested), images,
\* persist: the stages completed so far are always a prefix of that order,
\* and a run is done exactly when the artifact write was its last stage.
C1_StageOrder ==
  /\ \/ IsPrefix(log, << "scrape", "normalize", "rewrite", "images", "persist" >>)
     \/ IsPrefix(log, << "scrape", "normalize", "images", "persist" >>)
  /\ (pc = "done") = (log # << >> /\ log[Len(log)] = "persist")
  /\ InLog("rewrite") => RewriteRequested

C1_Witness ==
  /\ pc = "done"
  /\ log = << "scrape", "normalize", "rewrite", "images", "persist" >>

\* C2: a run whose page fetch came back failing or with a body that is not
\* HTML never completes and writes no artifact.
C2_NoArtifactForBadResponse ==
  pageResp \in { "network_error", "http_error", "not_html" }
    => pc # "done" /\ content = << >>

\* C3 as stated: when the model returns text that is not JSON, the persisted
\* artifact equals the record normalizeRestaurantData returned.
C3_ArtifactEqualsNormalized ==
  (modelResp.kind = "nonjson" /\ pc = "done") => content[ArtifactFile] = normalizedSnapshot

\* C3 as amended: when the model returns text that is not JSON, the rewrite
\* stage completes, the record handed to downloadAllImages is the record
\* normalizeRestaurantData returned, and the persisted artifact equals that
\* record except that a remote image reference may have been replaced by a
\* local path under /_imports/.
C3_FallbackThenLocalized ==
  modelResp.kind = "nonjson" =>
    /\ InLog("rewrite")
    /\ failedAt \in { "none", "persist" }
    /\ pc = "images" => finalData = normalizedSnapshot
    /\ InLog("images") => preImages = normalizedSnapshot
    /\ pc = "done" =>
         /\ WithoutImages(content[ArtifactFile]) = WithoutImages(normalizedSnapshot)
         /\ \A r \in { ImageRefs(normalizedSnapshot)[n] :
                         n \in DOMAIN ImageRefs(normalizedSnapshot) } :
              \/ RefValue(content[ArtifactFile], r) = RefValue(normalizedSnapshot, r)
              \/ /\ IsRemote(RefValue(normalizedSnapshot, r))
                 /\ StartsWith(RefValue(content[ArtifactFile], r), ImportsPrefix)

C3_Witness ==
  /\ modelResp.kind = "nonjson"
  /\ pc = "done"
  /\ content[ArtifactFile] # normalizedSnapshot
  /\ StartsWith(content[ArtifactFile].heroImage, ImportsPrefix)

\* the rewrite stage failed: the call threw or timed out, returned nothing,
\* returned text that is not JSON, or returned JSON that violates the schema
RewriteFailed ==
  \/ modelResp.kind \in { "error", "empty", "nonjson" }
  \/ modelResp.kind = "json" /\ ~SchemaAccepts(modelResp.value)

\* C4: on any failure inside the rewrite stage rewriteContent does not
\* throw (the stage completes, the run does not fail there) and the record
\* it returns is exactly the record it was given.
C4_RewriteFailureFallsBack ==
  RewriteFailed =>
    /\ InLog("rewrite")
    /\ failedAt # "rewrite"
    /\ pc = "images" => finalData = normalizedSnapshot /\ aliased

C4_Witness ==
  /\ pc = "images"
  /\ modelResp.kind = "json"
  /\ ~SchemaAccepts(modelResp.value)
  /\ finalData = normalizedSnapshot

\* C5: with no credential configured no chat-completion call is made and
\* the record leaving the rewrite stage is the Normalizer's output, in main
\* and in POST, with or without useAI.
C5_NoKeyPassThrough ==
  ~apiKey =>
    /\ apiCalls = 0
    /\ modelResp = NoResponse
    /\ pc = "images" => finalData = normalizedSnapshot

C5_Witness ==
  /\ ~apiKey
  /\ useAI
  /\ entry = "cli"
  /\ pc = "images"
  /\ InLog("rewrite")
  /\ finalData = normalizedSnapshot

\* C6: the record leaving the rewrite stage either is the record the stage
\* was given or satisfies the Site schema; it differs from the input only
\* when the model returned JSON that the schema accepts.
C6_AcceptedOnlyIfValid ==
  (pc = "images" /\ InLog("rewrite")) =>
    \/ finalData = normalizedSnapshot
    \/ /\ SchemaAccepts(finalData)
       /\ modelResp.kind = "json"
       /\ SchemaAccepts(modelResp.value)

C6_Witness ==
  /\ pc = "images"
  /\ InLog("rewrite")
  /\ finalData # normalizedSnapshot
  /\ SchemaAccepts(finalData)

\* C7: the record leaving the rewrite stage has the slug, theme, sourceUrl
\* and lastScrapedAt of the record the stage was given.
C7_RewriteKeepsIdentity ==
  (pc = "images" /\ InLog("rewrite")) =>
    /\ finalData.slug = normalizedSnapshot.slug
    /\ finalData.theme = normalizedSnapshot.theme
    /\ finalData.sourceUrl = normalizedSnapshot.sourceUrl
    /\ finalData.lastScrapedAt = normalizedSnapshot.lastScrapedAt

\* the downloads of the run, as a set
DownloadSet == { downloads[n] : n \in DOMAIN downloads }

C9_ImagesUnderArtifactSlug ==
  pc = "done" =>
    \A d \in DownloadSet :
      imageOutcomes[d.url] = "ok" =>
        /\ d.files # << >>
        /\ StartsWith(d.files[1].file,
                      PublicDir \o ImportsPrefix \o ArtifactSlug \o << "/" >>)
        /\ RefValue(content[ArtifactFile], d.ref)
             = ImportsPrefix \o ArtifactSlug \o << "/" >> \o RefFilename(preImages, d.ref)

\* C10: within one run of downloadAllImages, two different references
\* whose images were written were written to different files.
C10_DistinctFiles ==
  \A d1 \in DownloadSet, d2 \in DownloadSet :
    (d1.ref # d2.ref /\ d1.files # << >> /\ d2.files # << >>)
      => d1.files[1].file # d2.files[1].file

\* the hostname of the URL made of the parts, lowercased as a URL parser
\* reports it
HostnameOf(parts) ==
  toLowerCase((IF parts.www THEN WwwPrefix ELSE << >>) \o parts.host)

\* two URLs that differ at most in protocol, a leading www., the letter case
\* of the hostname, and the path
SameSite(a, b) == toLowerCase(a.host) = toLowerCase(b.host)

\* "." replaced by "-": the labels of a hostname joined by hyphens
JoinLabels(host) == [i \in DOMAIN host |-> IF host[i] = "." THEN "-" ELSE host[i]]

\* C11 as stated: createSlugFromUrl gives the same slug for any two URLs
\* that differ only in protocol, a leading www. on the hostname, letter case
\* of the hostname, or path.
C11_SameSlugForVariants ==
  (slugs # << >> /\ SameSite(slugUrls[1], slugUrls[2])) => slugs[1] = slugs[2]

\* C11 as amended: createSlugFromUrl gives the same slug for any two URLs
\* that differ only in protocol, a leading www. put in front of a hostname
\* that does not itself begin with www., letter case of the hostname, or
\* path.
C11_SameSlugUnlessWwwHost ==
  (/\ slugs # << >>
   /\ SameSite(slugUrls[1], slugUrls[2])
   /\ ~StartsWith(toLowerCase(slugUrls[1].host), WwwPrefix))
    => slugs[1] = slugs[2]

\* two URLs that differ in protocol, www., letter case of the hostname and
\* path, with one slug
C11_Witness ==
  /\ slugs # << >>
  /\ slugUrls[1].scheme # slugUrls[2].scheme
  /\ slugUrls[1].www /\ ~slugUrls[2].www
  /\ slugUrls[1].host # slugUrls[2].host
  /\ SameSite(slugUrls[1], slugUrls[2])
  /\ slugUrls[1].path # slugUrls[2].path
  /\ slugs[1] = slugs[2]
  /\ slugs[1] # << >>

\* C12: the slug of a URL is its lowercased hostname without the www.
\* prefix, with the hostname labels joined by hyphens (wohop17.com gives
\* wohop17-com).
C12_SlugJoinsLabels ==
  slugs # << >> =>
    \A n \in 1..2 : slugs[n] = JoinLabels(StripWww(HostnameOf(slugUrls[n])))

\* C13: two URLs whose hostnames differ after removing a leading www. never
\* yield the same slug.
C13_SlugUniquePerHost ==
  (/\ slugs # << >>
   /\ StripWww(HostnameOf(slugUrls[1])) # StripWww(HostnameOf(slugUrls[2])))
    => slugs[1] # slugs[2]

\* C14: in every completed run, through main or POST and with or without
\* the rewrite stage, the file name of the artifact is the slug derived from
\* the request URL, and equals the slug field stored inside the artifact.
C14_ArtifactKeyIsUrlSlug ==
  pc = "done" =>
    /\ ArtifactSlug = createSlugFromUrl(url)
    /\ content[ArtifactFile].slug = ArtifactSlug

\* C15: for the opening-hours text "Monday: 11am-10pm\nClosed" the
\* normalizer emits exactly one Hour entry, for Monday.
C15_MondayHoursParsed ==
  (InLog("normalize") /\ scrapedData.hours = HoursNoMinutes) =>
    /\ Len(normalizedSnapshot.hours) = 1
    /\ normalizedSnapshot.hours[1].day = << "M", "o", "n", "d", "a", "y" >>

\* C16: normalizeRestaurantData never fails, whatever the extractor found,
\* and a missing or empty name becomes 'Restaurant'.
C16_NormalizerNeverFails ==
  /\ failedAt # "normalize"
  /\ (InLog("normalize") /\ ~Truthy(scrapedData.name)) =>
       normalizedSnapshot.name = << "R", "e", "s", "t", "a", "u", "r", "a", "n", "t" >>

\* normalizeRestaurantData has been applied
Normalized == pc # "normalize"

C18_UrlValidatedFirst ==
  (entry # "none" /\ ~ParseUrl(url).ok) => (pc = "failed" /\ failedAt = "validate")

\* C19: every run terminates, with a persisted artifact or with an error,
\* whatever the remote origins do: no run is ever left awaiting a call that
\* never settles (at "waiting" no step of the run is possible, so a run that
\* gets there never terminates).
C19_RunsTerminate == pc # "waiting"

\* C20: every persisted artifact satisfies the RestaurantSite schema; every
\* review rating present lies in 1..5, and slug, name, theme, sourceUrl and
\* lastScrapedAt are present.
C20_ArtifactSatisfiesSchema ==
  pc = "done" =>
    /\ SchemaAccepts(content[ArtifactFile])
    /\ \A k \in DOMAIN content[ArtifactFile].reviews :
         RatingOk(content[ArtifactFile].reviews[k].rating)
    /\ content[ArtifactFile].theme # NoThemeFields

\* C21: in every persisted artifact the theme has a concrete primary,
\* accent and heroOverlay, whatever the page held and whether the rewrite
\* was skipped, failed, or accepted with a response that omits the theme
\* or some of its fields.
C21_ThemeConcrete ==
  pc = "done" =>
    /\ content[ArtifactFile].theme.primary # Undefined
    /\ content[ArtifactFile].theme.accent # Undefined
    /\ content[ArtifactFile].theme.heroOverlay # Undefined

\* a persisted artifact of a run whose accepted rewrite response had no
\* theme: the artifact carries the default triple
C21_Witness ==
  /\ pc = "done"
  /\ modelResp.kind = "json"
  /\ modelResp.value.theme = NoThemeFields
  /\ finalData.slug = normalizedSnapshot.slug
  /\ content[ArtifactFile].theme = DefaultTheme

LastWriteTo(file) ==
  CHOOSE n \in DOMAIN writes :
    writes[n].file = file /\ \A k \in DOMAIN writes : k > n => writes[k].file # file

Extracted == extracted # NoRecord

\* C24: a section block with a non-empty title whose body text is not longer
\* than the minimum length (50 characters) gives no entry in the sections
\* extracted; every entry extracted has a title and a body of more than 50
\* characters.
C24_ShortSectionDropped ==
  Extracted =>
    /\ \A n \in DOMAIN domPage.sectionBlocks :
         Len(trim(domPage.sectionBlocks[n].text)) <= MinBodyLength =>
           \A k \in DOMAIN extracted.sections :
             extracted.sections[k].body # trim(domPage.sectionBlocks[n].text)
    /\ \A k \in DOMAIN extracted.sections :
         /\ Len(extracted.sections[k].body) > MinBodyLength
         /\ extracted.sections[k].title # << >>

\* a document with a block titled Specials whose body has exactly 50
\* characters next to one of 51: only the second is extracted
C24_Witness ==
  /\ Extracted
  /\ Len(domPage.sectionBlocks) = 2
  /\ domPage.sectionBlocks[1].heading = Specials
  /\ domPage.sectionBlocks[1].matches = { "section" }
  /\ Len(trim(domPage.sectionBlocks[1].text)) = MinBodyLength
  /\ Len(trim(domPage.sectionBlocks[2].text)) = MinBodyLength + 1
  /\ domPage.sectionBlocks[2].matches = { "section" }
  /\ Len(extracted.sections) = 1
  /\ extracted.sections[1].body = trim(domPage.sectionBlocks[2].text)

\* the blocks whose body text is longer than the minimum length
LongBodied(blocks) == SelectSeq(blocks, LAMBDA b : Len(trim(b.text)) > MinBodyLength)

\* C25 as stated: a menu block is kept only if its body text has a
\* non-trivial length, so the menu extracted is the one of the long-bodied
\* blocks alone.
C25_MenuFilteredLikeSections ==
  Extracted => extracted.menu = extractMenu([menuBlocks |-> LongBodied(domPage.menuBlocks)])

\* C25: a menu block is kept exactly when it has a non-empty category name
\* and at least one item with a non-empty name, whatever the length of its
\* body text; the length test of section extraction is not applied to it.
C25_MenuKeptOnNameAndItems ==
  Extracted =>
    /\ \A n \in DOMAIN domPage.menuBlocks :
         (/\ trim(domPage.menuBlocks[n].heading) # << >>
          /\ \E i \in DOMAIN domPage.menuBlocks[n].items :
               trim(domPage.menuBlocks[n].items[i].name) # << >>)
         <=> \E k \in DOMAIN extracted.menu :
               /\ extracted.menu[k].name = trim(domPage.menuBlocks[n].heading)
               /\ extracted.menu[k].items = NamedItems(domPage.menuBlocks[n].items)
    /\ \A k \in DOMAIN extracted.menu :
         /\ extracted.menu[k].name # << >>
         /\ extracted.menu[k].items # << >>
         /\ \E n \in DOMAIN domPage.menuBlocks :
              extracted.menu[k].name = trim(domPage.menuBlocks[n].heading)

\* a menu block with a category name, one named item and a body of nine
\* characters is extracted
C25_Witness ==
  /\ Extracted
  /\ Len(domPage.menuBlocks) = 1
  /\ domPage.menuBlocks[1].heading = Mains
  /\ Len(trim(domPage.menuBlocks[1].text)) < MinBodyLength
  /\ Len(extracted.menu) = 1
  /\ extracted.menu[1].name = Mains

\* the first truthy value of a list of sources, undefined when there is none
RECURSIVE FirstNonEmpty(_)
FirstNonEmpty(sources) ==
  IF sources = << >> THEN Undefined
  ELSE IF Head(sources) # Undefined /\ Head(sources) # << >> THEN Head(sources)
  ELSE FirstNonEmpty(Tail(sources))

\* C27: phone, email and opening hours take the regular-expression match on
\* the page text only when the structured metadata has no value for the
\* field; name and tagline are the first non-empty of structured metadata,
\* social-preview metadata, page DOM, in that order.
C27_StructuredSourcesFirst ==
  Extracted =>
    /\ extracted.phone = FirstNonEmpty(<< domPage.jsonLd.telephone, domPage.phoneMatch >>)
    /\ extracted.email = FirstNonEmpty(<< domPage.jsonLd.email, domPage.emailMatch >>)
    /\ extracted.hours = FirstNonEmpty(<< domPage.jsonLd.openingHours, domPage.hoursMatch >>)
    /\ extracted.name = FirstNonEmpty(<< domPage.jsonLd.name, domPage.og.title,
                                         domPage.title, trim(domPage.h1) >>)
    /\ extracted.tagline = FirstNonEmpty(<< domPage.jsonLd.description,
                                            domPage.og.description,
                                            domPage.metaDescription >>)

\* a document with a name in every source, and one with structured phone,
\* email and hours next to matches in the text
C27_Witness ==
  /\ Extracted
  /\ \/ /\ domPage.jsonLd.name = LdName
        /\ domPage.og.title = OgTitle
        /\ domPage.title = TitleText
        /\ extracted.name = LdName
     \/ /\ domPage.jsonLd.telephone = LdPhone
        /\ domPage.phoneMatch = TextPhone
        /\ domPage.jsonLd.openingHours = HoursWithMinutes
        /\ domPage.hoursMatch = TextHours
        /\ extracted.phone = LdPhone
        /\ extracted.hours = HoursWithMinutes

\* C30: section extraction gives at most one section per block of the
\* document, also for an element that matches several section selectors.
C30_OneSectionPerBlock ==
  Extracted => Len(extracted.sections) <= Len(domPage.sectionBlocks)

\* Monday from monday, Fri from FRI
Capitalized(day) == << UpperChar(LowerChar(day[1])) >> \o Tail(toLowerCase(day))

RECURSIVE HoursOfEach(_)
HoursOfEach(lines) ==
  IF lines = << >> THEN << >> ELSE parseHours(Head(lines)) \o HoursOfEach(Tail(lines))

\* C26: parseHours handles each non-empty line on its own and in line order:
\* the hours of a text are the hours of its lines one after the other; a
\* line gives at most one entry; a line that the single-day pattern matches
\* gives the entry of that match; a line that neither pattern matches gives
\* none; every entry has a non-empty open and a non-empty close.
C26_HoursPerLine ==
  InLog("normalize") =>
    /\ normalizedData.hours = HoursOfEach(HourLines(scrapedData.hours))
    /\ Len(normalizedData.hours) <= Len(HourLines(scrapedData.hours))
    /\ \A k \in DOMAIN HourLines(scrapedData.hours) :
         \E line \in { HourLines(scrapedData.hours)[k] } :
           \E first \in { MatchDayTimes(line) }, entries \in { parseHours(line) } :
             /\ Len(entries) <= 1
             /\ first # << >> =>
                  entries = << [day |-> Capitalized(first[1]),
                                open |-> toLowerCase(trim(first[2])),
                                close |-> toLowerCase(trim(first[4]))] >>
             /\ (first = << >> /\ MatchDayRangeTimes(line) = << >>) => entries = << >>
    /\ \A n \in DOMAIN normalizedData.hours :
         /\ normalizedData.hours[n].open # << >>
         /\ normalizedData.hours[n].close # << >>

\* a text of a day-range line followed by a single-day line: one entry each,
\* in line order, the first decided by the single-day pattern
C26_Witness ==
  /\ InLog("normalize")
  /\ scrapedData.hours = JoinLines(<< LineDayRange, LineDay >>)
  /\ Len(normalizedData.hours) = 2
  /\ normalizedData.hours[1].day = << "F", "r", "i" >>
  /\ normalizedData.hours[2].day = << "S", "a", "t" >>
  /\ MatchDayRangeTimes(LineDayRange) # << >>

\* C28: downloadAllImages does not modify the record passed to it: after the
\* call the record that normalizeRestaurantData returned (the record passed
\* whenever no rewrite replaced it) holds the image references it had.
C28_InputRecordUnchanged ==
  InLog("images") => normalizedData = normalizedSnapshot

\* C29: a run that ends in failure leaves the content store and the image
\* store as they were before the run (empty): no artifact, no image file and
\* no image directory of the run has been written.
C29_FailedRunWritesNothing ==
  pc = "failed" => content = << >> /\ imageFiles = << >> /\ imageDirs = {}
====
